---------------------------- MODULE Spec2Model ----------------------------
(***************************************************************************)
(* Model of reorder_frontmatter.py: the frontmatter reorderer.              *)
(*                                                                         *)
(* Strings are sequences of one-character strings, so that fnmatch and the *)
(* frontmatter regular expression are computed character by character.     *)
(* A dict is a sequence of <<key, value>> pairs with distinct keys, in      *)
(* insertion order (the order Python's dict iterates in).                   *)
(***************************************************************************)
EXTENDS Integers, Sequences, FiniteSets, TLC

(***************************************************************************)
(* Bounds of the model.                                                     *)
(***************************************************************************)
\* Largest number of keys in a frontmatter handed to reorder_frontmatter.
MaxMeta == 3
\* Largest number of patterns in a ruleset (top_keys and bottom_keys together).
MaxPatterns == 3
\* Largest number of entries in the directory main is run on.
MaxFiles == 2

(***************************************************************************)
(* The keys and patterns the inputs are drawn from.  "ab" is matched by    *)
(* "a*" and by "a?"; "a" is matched by "a*" and by the character class      *)
(* "[a]"; the key "[a]" is equal to the pattern "[a]" and not matched by it.*)
(***************************************************************************)
KeyUniverse == { <<"a">>, <<"a", "b">>, <<"b">>, <<"[", "a", "]">> }

PatternUniverse ==
    { <<"a">>, <<"b">>, <<"a", "*">>, <<"a", "?">>, <<"[", "a", "]">> }

(***************************************************************************)
(* Python dict, in insertion order.                                         *)
(***************************************************************************)
Range(s) == { s[i] : i \in 1..Len(s) }

Keys(d) == { d[i][1] : i \in 1..Len(d) }

KeySeq(d) == [ i \in 1..Len(d) |-> d[i][1] ]

Has(d, k) == \E i \in 1..Len(d) : d[i][1] = k

Get(d, k) == d[CHOOSE i \in 1..Len(d) : d[i][1] = k][2]

\* Put as it would be if assigning to an existing key moved the key to the end.
PutMoveToEnd(d, k, v) ==
    Append(SelectSeq(d, LAMBDA item : item[1] # k), <<k, v>>)

\* d[k] = v: an existing key keeps its position and takes the value, a new
\* key goes to the end.
Put(d, k, v) ==
    IF Has(d, k)
    THEN [ i \in 1..Len(d) |-> IF d[i][1] = k THEN <<k, v>> ELSE d[i] ]
    ELSE Append(d, <<k, v>>)

\* d.update(other): d[k] = v for each item of other, in other's order.
RECURSIVE Update(_, _)
Update(d, other) ==
    IF other = <<>> THEN d
    ELSE Update(Put(d, Head(other)[1], Head(other)[2]), Tail(other))

(***************************************************************************)
(* fnmatch.fnmatch(name, pat) on a POSIX platform (normcase is the          *)
(* identity): the whole name must match the pattern; "*" matches any run   *)
(* of characters, "?" one character, "[seq]" one character of seq, "[!seq]" *)
(* one character not in seq, and a "[" that is never closed is literal.     *)
(* The characters "-" and "\" (ranges and escapes inside a class) are not   *)
(* in the alphabet of KeyUniverse and PatternUniverse.                      *)
(***************************************************************************)
\* The index of the "]" that closes the class whose content starts at i, or
\* Len(pat) + 1 when none does: a leading "!" and a leading "]" belong to
\* the content.
RECURSIVE ScanClose(_, _)
ScanClose(pat, j) ==
    IF j <= Len(pat) /\ pat[j] # "]" THEN ScanClose(pat, j + 1) ELSE j

ClassEnd(pat, i) ==
    LET j1 == IF i <= Len(pat) /\ pat[i] = "!" THEN i + 1 ELSE i
        j2 == IF j1 <= Len(pat) /\ pat[j1] = "]" THEN j1 + 1 ELSE j1
    IN  ScanClose(pat, j2)

\* Whether character c is in the class with content stuff (non-empty).
InClass(c, stuff) ==
    IF stuff = <<"!">> THEN TRUE
    ELSE IF stuff[1] = "!" THEN c \notin Range(Tail(stuff))
    ELSE c \in Range(stuff)

RECURSIVE MatchFrom(_, _, _, _)
MatchFrom(name, pat, i, j) ==
    IF j > Len(pat) THEN i > Len(name)
    ELSE IF pat[j] = "*"
    THEN \/ MatchFrom(name, pat, i, j + 1)
         \/ i <= Len(name) /\ MatchFrom(name, pat, i + 1, j)
    ELSE IF pat[j] = "?"
    THEN i <= Len(name) /\ MatchFrom(name, pat, i + 1, j + 1)
    ELSE IF pat[j] = "[" /\ ClassEnd(pat, j + 1) <= Len(pat)
    THEN LET e == ClassEnd(pat, j + 1)
         IN  /\ i <= Len(name)
             /\ InClass(name[i], SubSeq(pat, j + 1, e - 1))
             /\ MatchFrom(name, pat, i + 1, e + 1)
    ELSE i <= Len(name) /\ name[i] = pat[j] /\ MatchFrom(name, pat, i + 1, j + 1)

fnmatch(name, pat) == MatchFrom(name, pat, 1, 1)

\* any(fnmatch.fnmatch(key, pattern) for pattern in patterns)
matches_pattern(key, patterns) ==
    \E i \in 1..Len(patterns) : fnmatch(key, patterns[i])

(***************************************************************************)
(* reorder_frontmatter, pass by pass.                                       *)
(***************************************************************************)
\* '*' in pattern
HasStar(pattern) == "*" \in Range(pattern)

\* AddMatching as it would be if it went through the items last to first.
RECURSIVE AddMatchingReversed(_, _, _)
AddMatchingReversed(ordered, items, pattern) ==
    IF items = <<>> THEN ordered
    ELSE AddMatchingReversed(
            IF fnmatch(items[Len(items)][1], pattern)
            THEN Put(ordered, items[Len(items)][1], items[Len(items)][2])
            ELSE ordered,
            SubSeq(items, 1, Len(items) - 1), pattern)

\* for key, value in frontmatter.items(): if fnmatch(key, pattern): ordered[key] = value
RECURSIVE AddMatching(_, _, _)
AddMatching(ordered, items, pattern) ==
    IF items = <<>> THEN ordered
    ELSE AddMatching(
            IF fnmatch(Head(items)[1], pattern)
            THEN Put(ordered, Head(items)[1], Head(items)[2])
            ELSE ordered,
            Tail(items), pattern)

\* TopStep as it would be if every pattern were looked up as a key.
TopStepExactOnly(ordered, frontmatter, pattern) ==
    IF Has(frontmatter, pattern)
    THEN Put(ordered, pattern, Get(frontmatter, pattern))
    ELSE ordered

\* TopStep as it would be if an exact pattern were assigned whether or not the
\* frontmatter holds it (frontmatter.get(pattern): None, written 0, when absent).
TopStepCreatesEntry(ordered, frontmatter, pattern) ==
    IF HasStar(pattern)
    THEN AddMatching(ordered, frontmatter, pattern)
    ELSE Put(ordered, pattern,
             IF Has(frontmatter, pattern) THEN Get(frontmatter, pattern) ELSE 0)

\* One iteration of the loop over top_keys.
TopStep(ordered, frontmatter, pattern) ==
    IF HasStar(pattern)
    THEN AddMatching(ordered, frontmatter, pattern)
    ELSE IF Has(frontmatter, pattern)
         THEN Put(ordered, pattern, Get(frontmatter, pattern))
         ELSE ordered

RECURSIVE TopLoop(_, _, _)
TopLoop(ordered, frontmatter, patterns) ==
    IF patterns = <<>> THEN ordered
    ELSE TopLoop(TopStep(ordered, frontmatter, Head(patterns)),
                 frontmatter, Tail(patterns))

TopPass(frontmatter, top_keys) == TopLoop(<<>>, frontmatter, top_keys)

\* Keys matching no pattern of top_keys and none of bottom_keys.
RECURSIVE MiddlePass(_, _, _, _)
MiddlePass(ordered, items, top_keys, bottom_keys) ==
    IF items = <<>> THEN ordered
    ELSE MiddlePass(
            IF    ~matches_pattern(Head(items)[1], top_keys)
               /\ ~matches_pattern(Head(items)[1], bottom_keys)
            THEN Put(ordered, Head(items)[1], Head(items)[2])
            ELSE ordered,
            Tail(items), top_keys, bottom_keys)

\* BottomMatches as it would be if it collected the keys pattern by pattern.
RECURSIVE BottomMatchesByPattern(_, _, _)
BottomMatchesByPattern(acc, items, bottom_keys) ==
    IF bottom_keys = <<>> THEN acc
    ELSE BottomMatchesByPattern(
            AddMatching(acc, items, Head(bottom_keys)), items, Tail(bottom_keys))

\* bottom_matches: the items whose key matches a pattern of bottom_keys.
RECURSIVE BottomMatches(_, _, _)
BottomMatches(acc, items, bottom_keys) ==
    IF items = <<>> THEN acc
    ELSE BottomMatches(
            IF matches_pattern(Head(items)[1], bottom_keys)
            THEN Put(acc, Head(items)[1], Head(items)[2])
            ELSE acc,
            Tail(items), bottom_keys)

\* reorder_frontmatter as it would be with the middle pass before the top pass.
reorder_middle_first(frontmatter, top_keys, bottom_keys) ==
    LET afterMiddle == MiddlePass(<<>>, frontmatter, top_keys, bottom_keys)
        afterTop    == TopLoop(afterMiddle, frontmatter, top_keys)
    IN  Update(afterTop, BottomMatches(<<>>, frontmatter, bottom_keys))

reorder_frontmatter(frontmatter, top_keys, bottom_keys) ==
    LET afterTop    == TopPass(frontmatter, top_keys)
        afterMiddle == MiddlePass(afterTop, frontmatter, top_keys, bottom_keys)
    IN  Update(afterMiddle, BottomMatches(<<>>, frontmatter, bottom_keys))

(***************************************************************************)
(* Document text.  A text is a sequence of tokens: a one-character token    *)
(* <<c>> for "-", " ", newline and "x" (any other character), the token     *)
(* <<"{}">> (the flow mapping yaml.dump writes for an empty dict), and a     *)
(* token <<key, value>> for the characters of one YAML entry "key: value",   *)
(* none of which is a hyphen, a newline or leading or trailing whitespace.  *)
(***************************************************************************)
HY == <<"-">>
SP == <<" ">>
NL == <<"\n">>
XX == <<"x">>
EmptyFlow == <<"{}">>

Entry(k, v) == <<k, v>>
IsEntry(t) == Len(t) = 2

\* \s
IsWs(t) == t \in {SP, NL}

AllWs(s, i, j) == \A k \in i..j : IsWs(s[k])

AllSpaces(s, i, j) == \A k \in i..j : s[k] = SP

\* "---" at positions i, i+1, i+2.
HyphensAt(s, i) ==
    i >= 1 /\ i + 2 <= Len(s) /\ s[i] = HY /\ s[i + 1] = HY /\ s[i + 2] = HY

\* \n---\s*\n with its first newline at p and \s* taking b characters.
CloseAt(s, p, b) ==
    /\ p >= 1 /\ p + 4 + b <= Len(s)
    /\ s[p] = NL
    /\ HyphensAt(s, p + 1)
    /\ AllWs(s, p + 4, p + 3 + b)
    /\ s[p + 4 + b] = NL

\* ^---\s*\n with \s* taking a characters.
OpenAt(s, a) ==
    /\ HyphensAt(s, 1)
    /\ 4 + a <= Len(s)
    /\ AllWs(s, 4, 3 + a)
    /\ s[4 + a] = NL

Max(S) == CHOOSE x \in S : \A y \in S : y <= x
Min(S) == CHOOSE x \in S : \A y \in S : x <= y

\* re.match(r'^---\s*\n(.*?)\n---\s*\n(.*)$', content, re.DOTALL): the match
\* the backtracking search finds first.  The first \s* is greedy, group 1
\* lazy, the second \s* greedy, and group 2 takes the rest of the text.
FrontmatterMatch(content) ==
    LET n == Len(content)
        Closes(a) == { p \in (5 + a)..n : \E b \in 0..n : CloseAt(content, p, b) }
        Opens == { a \in 0..n : OpenAt(content, a) /\ Closes(a) # {} }
    IN  IF Opens = {} THEN [ok |-> FALSE, g1 |-> <<>>, g2 |-> <<>>, close |-> 0]
        ELSE LET a == Max(Opens)
                 p == Min(Closes(a))
                 b == Max({ c \in 0..n : CloseAt(content, p, c) })
             IN  [ok |-> TRUE,
                  g1 |-> SubSeq(content, 5 + a, p - 1),
                  g2 |-> SubSeq(content, p + 5 + b, n),
                  close |-> p + 1]

\* text.split("\n")
RECURSIVE SplitLines(_, _)
SplitLines(text, line) ==
    IF text = <<>> THEN <<line>>
    ELSE IF Head(text) = NL THEN <<line>> \o SplitLines(Tail(text), <<>>)
    ELSE SplitLines(Tail(text), Append(line, Head(text)))

IsBlankLine(line) == AllSpaces(line, 1, Len(line))

IsEntryLine(line) ==
    Len(line) >= 1 /\ IsEntry(line[1]) /\ AllSpaces(line, 2, Len(line))

RECURSIVE LoadLines(_, _)
LoadLines(d, lines) ==
    IF lines = <<>> THEN d
    ELSE LoadLines(
            IF IsEntryLine(Head(lines))
            THEN Put(d, Head(lines)[1][1], Head(lines)[1][2])
            ELSE d,
            Tail(lines))

\* yaml.safe_load(text) followed by isinstance(frontmatter, dict), for a
\* block whose lines are blank, one entry each, or text without a hyphen or
\* a colon: a block mapping when every line that is not blank is an entry
\* and there is one; otherwise None (nothing but blank lines), a scalar, or
\* a YAMLError, none of which is a dict.
yaml_safe_load(text) ==
    LET lines == SplitLines(text, <<>>)
    IN  IF /\ \A i \in 1..Len(lines) : IsBlankLine(lines[i]) \/ IsEntryLine(lines[i])
           /\ \E i \in 1..Len(lines) : IsEntryLine(lines[i])
        THEN [isdict |-> TRUE, dict |-> LoadLines(<<>>, lines)]
        ELSE [isdict |-> FALSE, dict |-> <<>>]

\* yaml.dump(d, allow_unicode=True, sort_keys=False): one "key: value" line
\* per item, in the dict's order; "{}" for an empty dict.
RECURSIVE DumpItems(_)
DumpItems(d) ==
    IF d = <<>> THEN <<>>
    ELSE <<Entry(Head(d)[1], Head(d)[2]), NL>> \o DumpItems(Tail(d))

yaml_dump(d) == IF d = <<>> THEN <<EmptyFlow, NL>> ELSE DumpItems(d)

\* extract_frontmatter as it would be without the isinstance check.
extract_frontmatter_unchecked(content) ==
    LET match == FrontmatterMatch(content)
        loaded == yaml_safe_load(match.g1)
    IN  IF ~match.ok
        THEN [frontmatter |-> <<>>, remaining |-> content, has |-> FALSE]
        ELSE [frontmatter |-> loaded.dict, remaining |-> match.g2, has |-> TRUE]

extract_frontmatter(content) ==
    LET match == FrontmatterMatch(content)
        loaded == yaml_safe_load(match.g1)
    IN  IF ~match.ok \/ ~loaded.isdict
        THEN [frontmatter |-> <<>>, remaining |-> content, has |-> FALSE]
        ELSE [frontmatter |-> loaded.dict, remaining |-> match.g2, has |-> TRUE]

\* process_file on a readable and writable file holding content: what it
\* returns, whether it called reorder_frontmatter, whether it wrote the file,
\* and the content of the file afterwards.
process_file(content, top_keys, bottom_keys) ==
    LET ex == extract_frontmatter(content)
    IN  IF ~ex.has
        THEN [ok |-> FALSE, called |-> FALSE, wrote |-> FALSE, content |-> content]
        ELSE [ok |-> TRUE, called |-> TRUE, wrote |-> TRUE,
              content |->
                  <<HY, HY, HY, NL>>
                  \o yaml_dump(reorder_frontmatter(ex.frontmatter, top_keys, bottom_keys))
                  \o <<HY, HY, HY, NL>>
                  \o ex.remaining]

(***************************************************************************)
(* The configuration file: missing (FileNotFoundError), not JSON            *)
(* (JSONDecodeError), JSON that is no object (config.get raises, caught by  *)
(* except Exception), or an object that may hold top_keys and bottom_keys.  *)
(***************************************************************************)
Config(kind, has_top, top, has_bottom, bottom) ==
    [kind |-> kind, has_top |-> has_top, top |-> top,
     has_bottom |-> has_bottom, bottom |-> bottom]

load_config(config) ==
    IF config.kind = "object"
    THEN << IF config.has_top THEN config.top ELSE <<>>,
            IF config.has_bottom THEN config.bottom ELSE <<>> >>
    ELSE << <<>>, <<>> >>

(***************************************************************************)
(* Inputs of the reorderer.                                                 *)
(***************************************************************************)
SeqsUpTo(S, n) == UNION { [1..m -> S] : m \in 0..n }

Distinct(s) == \A i, j \in 1..Len(s) : i # j => s[i] # s[j]

\* A frontmatter with the keys ks in this order; the value of a key is its
\* position in the document.
DictOf(ks) == [ i \in 1..Len(ks) |-> <<ks[i], i>> ]

Frontmatters ==
    { DictOf(ks) : ks \in { s \in SeqsUpTo(KeyUniverse, MaxMeta) : Distinct(s) } }

PatternLists == SeqsUpTo(PatternUniverse, MaxPatterns)

(***************************************************************************)
(* Inputs of a run of main: the configuration file and the directory.       *)
(***************************************************************************)
NoConfig == Config("missing", FALSE, <<>>, FALSE, <<>>)

ConfigUniverse ==
    { NoConfig,
      Config("invalid", FALSE, <<>>, FALSE, <<>>),
      Config("nonobject", FALSE, <<>>, FALSE, <<>>),
      Config("object", FALSE, <<>>, FALSE, <<>>),
      Config("object", TRUE, << <<"a">> >>, FALSE, <<>>),
      Config("object", TRUE, << <<"a", "*">> >>, TRUE, << <<"b">> >>) }

Delim == <<HY, HY, HY>>
TwoKeys == <<Entry(<<"b">>, 2), NL, Entry(<<"a">>, 1)>>
ThreeKeys == <<Entry(<<"b">>, 1), NL, Entry(<<"a", "b">>, 2), NL, Entry(<<"a">>, 3)>>
Plain == Delim \o <<NL>> \o TwoKeys \o <<NL>> \o Delim \o <<NL>>

DocUniverse ==
    { \* a block and a body
      Plain \o <<XX, NL>>,
      \* a blank line between the closing delimiter and the body
      Plain \o <<NL, XX, NL>>,
      \* delimiters with trailing spaces, then a whitespace-only line
      Delim \o <<SP, NL>> \o TwoKeys \o <<NL>> \o Delim \o <<SP, NL, SP, NL, XX, NL>>,
      \* text before the opening delimiter
      <<XX, NL>> \o Plain \o <<XX, NL>>,
      \* a block that is a scalar
      Delim \o <<NL, XX, NL>> \o Delim \o <<NL, XX, NL>>,
      \* an empty block
      Delim \o <<NL, NL>> \o Delim \o <<NL, XX, NL>>,
      \* no closing delimiter
      Delim \o <<NL>> \o TwoKeys \o <<NL, XX, NL>>,
      \* a delimiter line inside the body
      Plain \o <<XX, NL>> \o Delim \o <<NL, XX, NL>>,
      \* no body
      Plain,
      \* three keys, blank lines around them
      Delim \o <<NL, NL>> \o ThreeKeys \o <<SP, NL>> \o Delim \o <<NL, XX>> }

\* A directory entry: a regular file named *.md with its content, or
\* anything else (another name, or a directory), which main skips.
MdFile(content) == [md |-> TRUE, content |-> content]
OtherEntry == [md |-> FALSE, content |-> <<>>]

EntryUniverse == { MdFile(c) : c \in DocUniverse } \cup {OtherEntry}

NotSeen == [seen |-> FALSE, called |-> FALSE, wrote |-> FALSE, ok |-> FALSE]

VARIABLES
    pc,              \* position of the caller of reorder_frontmatter, or of main
    frontmatter,     \* the dict handed to reorder_frontmatter
    top_keys,        \* the ruleset
    bottom_keys,
    ordered,         \* the result of reorder_frontmatter
    again,           \* the result of reorder_frontmatter on ordered
    directory_ok,    \* os.path.isdir(args.directory)
    config,          \* the file at args.config
    entries,         \* os.listdir(args.directory), with the files' first content
    disk,            \* the content of each entry now
    idx,             \* the entry the loop of main is at
    processed_files,
    success_count,
    log              \* per entry: what process_file did and returned

vars == <<pc, frontmatter, top_keys, bottom_keys, ordered, again,
          directory_ok, config, entries, disk, idx, processed_files,
          success_count, log>>

reorderVars == <<frontmatter, ordered, again>>

mainVars == <<directory_ok, config, entries, disk, idx, processed_files,
              success_count, log>>

(***************************************************************************)
(* Spec: reorder_frontmatter on every frontmatter and ruleset in bounds,    *)
(* then on its own result.                                                  *)
(***************************************************************************)
Init ==
    /\ pc = "start"
    /\ frontmatter \in Frontmatters
    /\ top_keys \in PatternLists
    /\ bottom_keys \in PatternLists
    /\ Len(top_keys) + Len(bottom_keys) <= MaxPatterns
    /\ ordered = <<>>
    /\ again = <<>>
    /\ directory_ok = TRUE
    /\ config = NoConfig
    /\ entries = <<>>
    /\ disk = <<>>
    /\ idx = 0
    /\ processed_files = 0
    /\ success_count = 0
    /\ log = <<>>

\* ordered = reorder_frontmatter(frontmatter, top_keys, bottom_keys)
Reorder ==
    /\ pc = "start"
    /\ ordered' = reorder_frontmatter(frontmatter, top_keys, bottom_keys)
    /\ pc' = "reordered"
    /\ UNCHANGED <<frontmatter, top_keys, bottom_keys, again>>
    /\ UNCHANGED mainVars

\* again = reorder_frontmatter(ordered, top_keys, bottom_keys)
ReorderAgain ==
    /\ pc = "reordered"
    /\ again' = reorder_frontmatter(ordered, top_keys, bottom_keys)
    /\ pc' = "done"
    /\ UNCHANGED <<frontmatter, top_keys, bottom_keys, ordered>>
    /\ UNCHANGED mainVars

Next == Reorder \/ ReorderAgain

Spec == Init /\ [][Next]_vars

(***************************************************************************)
(* SpecMain: a run of main over a directory.                                *)
(***************************************************************************)
InitMain ==
    /\ pc = "main"
    /\ directory_ok \in BOOLEAN
    /\ config \in ConfigUniverse
    /\ entries \in SeqsUpTo(EntryUniverse, MaxFiles)
    /\ disk = [ i \in 1..Len(entries) |-> entries[i].content ]
    /\ log = [ i \in 1..Len(entries) |-> NotSeen ]
    /\ idx = 0
    /\ processed_files = 0
    /\ success_count = 0
    /\ top_keys = <<>>
    /\ bottom_keys = <<>>
    /\ frontmatter = <<>>
    /\ ordered = <<>>
    /\ again = <<>>

\* The checks of the directory and of the configuration file: main returns
\* when either is missing.
CheckArgs ==
    /\ pc = "main"
    /\ pc' = IF ~directory_ok \/ config.kind = "missing" THEN "exit" ELSE "load"
    /\ UNCHANGED <<top_keys, bottom_keys>>
    /\ UNCHANGED reorderVars
    /\ UNCHANGED mainVars

\* top_keys, bottom_keys = load_config(args.config), and the counters.
LoadConfig ==
    /\ pc = "load"
    /\ top_keys' = load_config(config)[1]
    /\ bottom_keys' = load_config(config)[2]
    /\ processed_files' = 0
    /\ success_count' = 0
    /\ idx' = 1
    /\ pc' = "loop"
    /\ UNCHANGED reorderVars
    /\ UNCHANGED <<directory_ok, config, entries, disk, log>>

\* One iteration of the loop over os.listdir(args.directory).
ProcessEntry ==
    /\ pc = "loop"
    /\ idx <= Len(entries)
    /\ LET r == process_file(disk[idx], top_keys, bottom_keys)
       IN  IF entries[idx].md
           THEN /\ processed_files' = processed_files + 1
                /\ success_count' = success_count + (IF r.ok THEN 1 ELSE 0)
                /\ disk' = [disk EXCEPT ![idx] = r.content]
                /\ log' = [log EXCEPT ![idx] =
                              [seen |-> TRUE, called |-> r.called,
                               wrote |-> r.wrote, ok |-> r.ok]]
           ELSE UNCHANGED <<processed_files, success_count, disk, log>>
    /\ idx' = idx + 1
    /\ UNCHANGED <<pc, top_keys, bottom_keys, directory_ok, config, entries>>
    /\ UNCHANGED reorderVars

\* The report after the loop.
Report ==
    /\ pc = "loop"
    /\ idx > Len(entries)
    /\ pc' = "exit"
    /\ UNCHANGED <<top_keys, bottom_keys>>
    /\ UNCHANGED reorderVars
    /\ UNCHANGED mainVars

NextMain == CheckArgs \/ LoadConfig \/ ProcessEntry \/ Report

SpecMain == InitMain /\ [][NextMain]_vars

(***************************************************************************)
(* Vocabulary of the properties of reorder_frontmatter.                     *)
(***************************************************************************)
Pos(d, k) == CHOOSE i \in 1..Len(d) : d[i][1] = k

\* Pattern p of top_keys places key k in the top pass.
Places(p, k) == IF HasStar(p) THEN fnmatch(k, p) ELSE k = p

TopPlaced(k) ==
    k \in Keys(frontmatter) /\ \E i \in 1..Len(top_keys) : Places(top_keys[i], k)

\* The declaration index of the first top pattern that places k.
FirstTop(k) ==
    CHOOSE i \in 1..Len(top_keys) :
        Places(top_keys[i], k) /\ \A j \in 1..(i - 1) : ~Places(top_keys[j], k)

MatchesNone(k) ==
    ~matches_pattern(k, top_keys) /\ ~matches_pattern(k, bottom_keys)

\* k matches a top pattern that holds a "*" and a bottom pattern.
DoublyClassified(k) ==
    /\ k \in Keys(frontmatter)
    /\ \E i \in 1..Len(top_keys) : HasStar(top_keys[i]) /\ fnmatch(k, top_keys[i])
    /\ matches_pattern(k, bottom_keys)

\* The keys of S keep in d the relative order they have in frontmatter.
KeepsOrder(d, S) ==
    \A k1, k2 \in S \cap Keys(d) :
        Pos(frontmatter, k1) < Pos(frontmatter, k2) => Pos(d, k1) < Pos(d, k2)

\* The pattern is a literal or uses only the wildcards "*" and "?".
NoClass(p) == "[" \notin Range(p)

StarQuestionOnly ==
    /\ \A i \in 1..Len(top_keys) : NoClass(top_keys[i])
    /\ \A i \in 1..Len(bottom_keys) : NoClass(bottom_keys[i])

PermsOf(s) ==
    { [ i \in 1..Len(s) |-> s[f[i]] ] :
        f \in { g \in [1..Len(s) -> 1..Len(s)] : \A i, j \in 1..Len(s) : i # j => g[i] # g[j] } }

(***************************************************************************)
(* C1.  Set preservation: with patterns that are literals or use "*" and    *)
(* "?", the result of reorder_frontmatter has exactly the keys of the       *)
(* frontmatter, each once, each with the value it had.                      *)
(***************************************************************************)
C1_SetPreservation ==
    (pc # "start" /\ StarQuestionOnly) =>
        /\ Keys(ordered) = Keys(frontmatter)
        /\ Distinct(KeySeq(ordered))
        /\ \A k \in Keys(frontmatter) : Has(ordered, k) => Get(ordered, k) = Get(frontmatter, k)

(***************************************************************************)
(* C2 as stated.  A key that matches a top pattern by wildcard and also a   *)
(* bottom pattern comes after every key that matches no pattern.            *)
(***************************************************************************)
C2_BottomWins ==
    pc # "start" =>
        \A k \in Keys(ordered) : DoublyClassified(k) =>
            \A m \in Keys(ordered) : MatchesNone(m) => Pos(ordered, m) < Pos(ordered, k)

(***************************************************************************)
(* C2 amended.  A key that matches a top pattern by wildcard and also a     *)
(* bottom pattern stays where the top pass put it: it is in the result      *)
(* before every key the top pass did not place.                             *)
(***************************************************************************)
C2_TopWins ==
    pc # "start" =>
        \A k \in Keys(frontmatter) : DoublyClassified(k) =>
            /\ k \in Keys(ordered)
            /\ \A m \in Keys(ordered) : ~TopPlaced(m) => Pos(ordered, k) < Pos(ordered, m)

C2_Witness ==
    /\ pc = "reordered"
    /\ \E k, m \in Keys(ordered) :
          DoublyClassified(k) /\ MatchesNone(m) /\ ~TopPlaced(m)
          /\ Pos(frontmatter, m) < Pos(frontmatter, k)

(***************************************************************************)
(* C3.  Top segment order: the result begins with the keys placed by the    *)
(* top pass, each once, ordered by the index of the first top pattern that  *)
(* places them and, under the same pattern, by position in the frontmatter. *)
(***************************************************************************)
TopBefore(k1, k2) ==
    \/ FirstTop(k1) < FirstTop(k2)
    \/ FirstTop(k1) = FirstTop(k2) /\ Pos(frontmatter, k1) < Pos(frontmatter, k2)

C3_TopSegmentOrder ==
    pc # "start" =>
        LET n == Cardinality({ k \in Keys(frontmatter) : TopPlaced(k) })
        IN  /\ Len(ordered) >= n
            /\ Distinct(KeySeq(ordered))
            /\ \A i \in 1..n : TopPlaced(ordered[i][1])
            /\ \A i, j \in 1..n : i < j => TopBefore(ordered[i][1], ordered[j][1])

\* A wildcard that matches two keys, one of them placed already by an earlier
\* pattern although it comes later in the frontmatter, and a key the top pass
\* leaves alone.
C3_Witness ==
    /\ pc = "reordered"
    /\ Len(top_keys) >= 2
    /\ HasStar(top_keys[2])
    /\ \E k1, k2, m \in Keys(frontmatter) :
          /\ TopPlaced(k1) /\ TopPlaced(k2) /\ ~TopPlaced(m)
          /\ FirstTop(k1) = 1
          /\ Places(top_keys[2], k1)
          /\ FirstTop(k2) = 2
          /\ Pos(frontmatter, k1) > Pos(frontmatter, k2)
          /\ Pos(frontmatter, m) < Pos(frontmatter, k2)

(***************************************************************************)
(* C4 as stated.  The keys matching a bottom pattern come after every key   *)
(* that matches no pattern, in their original order, and permuting          *)
(* bottom_keys does not change the result.                                  *)
(***************************************************************************)
C4_BottomSegment ==
    pc # "start" =>
        LET B == { k \in Keys(ordered) : matches_pattern(k, bottom_keys) }
        IN  /\ \A k \in B : \A m \in Keys(ordered) :
                  MatchesNone(m) => Pos(ordered, m) < Pos(ordered, k)
            /\ KeepsOrder(ordered, B)
            /\ \A bp \in PermsOf(bottom_keys) :
                  reorder_frontmatter(frontmatter, top_keys, bp) = ordered

(***************************************************************************)
(* C4 amended.  The keys matching a bottom pattern that the top pass did    *)
(* not place are all in the result, after every other key, in their         *)
(* original order, and permuting bottom_keys does not change the result.    *)
(***************************************************************************)
C4_BottomSegmentUnplaced ==
    pc = "reordered" =>
        LET B == { k \in Keys(frontmatter) :
                     matches_pattern(k, bottom_keys) /\ ~TopPlaced(k) }
        IN  /\ B \subseteq Keys(ordered)
            /\ \A k \in B : \A m \in Keys(ordered) \ B : Pos(ordered, m) < Pos(ordered, k)
            /\ KeepsOrder(ordered, B)
            /\ \A bp \in PermsOf(bottom_keys) :
                  reorder_frontmatter(frontmatter, top_keys, bp) = ordered

\* Two bottom keys whose patterns are declared in the other order, before a
\* key that matches no pattern.
C4_Witness ==
    /\ pc = "reordered"
    /\ Len(bottom_keys) = 2
    /\ \E k1, k2, m \in Keys(frontmatter) :
          /\ ~TopPlaced(k1) /\ ~TopPlaced(k2) /\ MatchesNone(m) /\ ~TopPlaced(m)
          /\ fnmatch(k1, bottom_keys[2]) /\ ~fnmatch(k1, bottom_keys[1])
          /\ fnmatch(k2, bottom_keys[1]) /\ ~fnmatch(k2, bottom_keys[2])
          /\ Pos(frontmatter, k1) < Pos(frontmatter, k2)
          /\ Pos(frontmatter, k2) < Pos(frontmatter, m)

C6_Idempotent == pc = "done" => again = ordered

\* The first application moved a key, and a wildcard placed two keys.
C6_Witness ==
    /\ pc = "done"
    /\ KeySeq(ordered) # KeySeq(frontmatter)
    /\ Keys(ordered) = Keys(frontmatter)
    /\ \E i \in 1..Len(top_keys) :
          /\ HasStar(top_keys[i])
          /\ Cardinality({ k \in Keys(frontmatter) : fnmatch(k, top_keys[i]) }) >= 2

(***************************************************************************)
(* C10.  A single top pattern that names a key absent from the frontmatter  *)
(* (a literal: it holds none of the characters "*", "?" and "[" that        *)
(* fnmatch reads as wildcards) is a no-op: the result is that of an empty   *)
(* ruleset, which is the frontmatter in its original order; no entry is     *)
(* created and none removed.                                                *)
(***************************************************************************)
IsLiteral(p) == Range(p) \cap {"*", "?", "["} = {}

AbsentLiteralOnly ==
    /\ Len(top_keys) = 1
    /\ bottom_keys = <<>>
    /\ IsLiteral(top_keys[1])
    /\ top_keys[1] \notin Keys(frontmatter)

C10_AbsentPatternNoOp ==
    (pc # "start" /\ AbsentLiteralOnly) =>
        /\ ordered = reorder_frontmatter(frontmatter, <<>>, <<>>)
        /\ ordered = frontmatter

\* An absent literal, over a frontmatter with a key the literal is a prefix of.
C10_Witness ==
    /\ pc = "reordered"
    /\ AbsentLiteralOnly
    /\ Len(frontmatter) >= 2
    /\ \E k \in Keys(frontmatter) :
          Len(k) > Len(top_keys[1]) /\ SubSeq(k, 1, Len(top_keys[1])) = top_keys[1]

(***************************************************************************)
(* Vocabulary of the properties of process_file and main.                   *)
(***************************************************************************)
\* The first line of the text is "---" and nothing but spaces after it.
StartsWithDelimiterLine(text) ==
    \E a \in 0..Len(text) :
        /\ HyphensAt(text, 1)
        /\ 4 + a <= Len(text)
        /\ AllSpaces(text, 4, 3 + a)
        /\ text[4 + a] = NL

\* The text after the line of the closing delimiter.
AfterClosingLine(text) ==
    LET close == FrontmatterMatch(text).close
        eol == Min({ k \in (close + 3)..Len(text) : text[k] = NL })
    IN  SubSeq(text, eol + 1, Len(text))

\* No delimiter line on the first line, or a delimited region that is no
\* mapping.
NoBlock(text) ==
    \/ ~StartsWithDelimiterLine(text)
    \/ /\ FrontmatterMatch(text).ok
       /\ ~yaml_safe_load(FrontmatterMatch(text).g1).isdict

(***************************************************************************)
(* C7.  Body preservation: in a file process_file has rewritten, the text   *)
(* after the closing delimiter line is the text that followed the closing   *)
(* delimiter line of the original, blank lines included.                    *)
(***************************************************************************)
C7_BodyPreserved ==
    \A i \in 1..Len(entries) :
        log[i].wrote => AfterClosingLine(disk[i]) = AfterClosingLine(entries[i].content)

(***************************************************************************)
(* C8.  No block present: for a document without a delimiter line on its    *)
(* first line, or whose delimited region is no mapping, extract_frontmatter *)
(* returns ({}, the whole text, False), and process_file does not call      *)
(* reorder_frontmatter, does not write, returns False and leaves the file   *)
(* as it was.                                                               *)
(***************************************************************************)
C8_NoBlockUntouched ==
    \A i \in 1..Len(entries) :
        (log[i].seen /\ NoBlock(entries[i].content)) =>
            /\ extract_frontmatter(entries[i].content) =
                  [frontmatter |-> <<>>, remaining |-> entries[i].content, has |-> FALSE]
            /\ ~log[i].called
            /\ ~log[i].wrote
            /\ ~log[i].ok
            /\ disk[i] = entries[i].content

\* A run that met a document with text before the delimiter and one whose
\* block is a scalar or empty, under a ruleset that is not empty.
C8_Witness ==
    /\ pc = "exit"
    /\ top_keys # <<>>
    /\ \E i, j \in 1..Len(entries) :
          /\ log[i].seen /\ ~StartsWithDelimiterLine(entries[i].content)
          /\ log[j].seen /\ StartsWithDelimiterLine(entries[j].content)
          /\ FrontmatterMatch(entries[j].content).ok
          /\ ~yaml_safe_load(FrontmatterMatch(entries[j].content).g1).isdict

(***************************************************************************)
(* C9.  A configuration file that is missing or invalid is not fatal: the   *)
(* run ends with both pattern lists empty, every document of the directory  *)
(* processed, and every document with a block keeping its key order.        *)
(***************************************************************************)
C9_LoadFailureNonFatal ==
    (/\ pc = "exit"
     /\ directory_ok
     /\ config.kind \in {"missing", "invalid", "nonobject"}) =>
        /\ top_keys = <<>>
        /\ bottom_keys = <<>>
        /\ \A i \in 1..Len(entries) : entries[i].md =>
              /\ log[i].seen
              /\ extract_frontmatter(entries[i].content).has =>
                    KeySeq(extract_frontmatter(disk[i]).frontmatter)
                        = KeySeq(extract_frontmatter(entries[i].content).frontmatter)

=============================================================================
